---- MODULE Spec2Model ----
(***************************************************************************)
(* Model of the OnePager generation pipeline of ManagerService             *)
(* (src/unnamed/part_001): handleGenerateOP, extractPlaceholders,          *)
(* generateModifiedPPT, updateSlides and sendOnePagerResponse; and of the   *)
(* cipher helpers _generateKey, _encrypt and _decrypt of the same class.   *)
(*                                                                         *)
(* Spec runs one request, SpecConcurrent two requests at the same time,    *)
(* SpecRender one call of generateModifiedPPT, SpecCipher the calls of the *)
(* cipher helpers.                                                         *)
(*                                                                         *)
(* Strings that the code inspects or rewrites (slide text, placeholder     *)
(* tokens and values) are sequences of one-character strings.  Binary      *)
(* blobs are one-element sequences holding an opaque name.  JavaScript     *)
(* objects whose key order matters (the placeholder object, JSZip's        *)
(* files) are sequences of <<key, value>> pairs in insertion order.      *)
(***************************************************************************)
EXTENDS Integers, Sequences, FiniteSets, TLC

VARIABLES
    Employees,        \* Employees table: employee ID -> stored profile
    Avatars,          \* Avatars table: employee ID -> avatar row
    templateFile,     \* ./srv/res/opTemplate/OP_template.pptx as a container
    oReq,             \* per request: the request data (aEmployeeIDs, sType)
    pc,               \* per request: position of handleGenerateOP
    iEmployee,        \* per request: index of the for-of loop (1-based)
    oEmployeeDetails, \* per request: profile being processed
    oPlaceholders,    \* per request: placeholder object of the current employee
    oZip,             \* per request: JSZip instance of the current render
    aPPTBuffers,      \* per request: rendered buffers so far
    res,              \* per request: what was written to oReq.res
    oError,           \* per request: error the handler ended with
    trace,            \* per request: history of the awaited steps
    oCipher           \* the calls of _encrypt and _decrypt and what they returned

vars == <<Employees, Avatars, templateFile, oReq, pc, iEmployee,
          oEmployeeDetails, oPlaceholders, oZip, aPPTBuffers, res, oError,
          trace, oCipher>>

-----------------------------------------------------------------------------
(* Bounds of the model *)

MaxBatch == 3         \* longest aEmployeeIDs list of a request
MaxProjects == 5      \* most projects of a drawn profile

(* Program constants *)

CertSlots == 2        \* for (let i = 0; i < 2; i++)
ProjectSlots == 4     \* for (let i = 0; i < 4; i++)
NotFoundCode == 404
BadRequestCode == 400
NoCode == 0             \* stands for the undefined code of an error thrown without one

-----------------------------------------------------------------------------
(* Strings *)

Null == <<"null">>          \* JavaScript null / undefined

Digits == <<"0", "1", "2", "3", "4", "5", "6", "7", "8", "9">>
NumStr(i) == <<Digits[i + 1]>>      \* the template literal ${i} for 0 <= i <= 9

K_fullName == <<"f", "u", "l", "l", "N", "a", "m", "e">>
K_since == <<"s", "i", "n", "c", "e">>
K_competence == <<"c", "o", "m", "p", "e", "t", "e", "n", "c", "e">>
K_projectRole == <<"p", "r", "o", "j", "e", "c", "t", "R", "o", "l", "e">>
K_projectIndustry == <<"p", "r", "o", "j", "e", "c", "t", "I", "n", "d", "u", "s", "t", "r", "y">>
K_projectName == <<"p", "r", "o", "j", "e", "c", "t", "N", "a", "m", "e">>
K_languages == <<"l", "a", "n", "g", "u", "a", "g", "e", "s">>
K_skills == <<"s", "k", "i", "l", "l", "s">>

\* the token {{name}}
Token(name) == <<"{", "{">> \o name \o <<"}", "}">>

CapgeminiEmployee == <<"C", "a", "p", "g", "e", "m", "i", "n", "i", " ",
                       "E", "m", "p", "l", "o", "y", "e", "e">>

\* x || ""  for a string or null x
OrEmpty(x) == IF x = Null \/ x = <<>> THEN <<>> ELSE x

\* Array.prototype.join: null elements are joined as the empty string
RECURSIVE Join(_, _)
Join(a, sep) ==
    IF Len(a) = 0 THEN <<>>
    ELSE IF Len(a) = 1 THEN OrEmpty(a[1])
    ELSE OrEmpty(a[1]) \o sep \o Join(Tail(a), sep)

\* Assignment obj[key] = value on an insertion-ordered object
SetProp(obj, key, value) ==
    IF \E k \in 1..Len(obj) : obj[k][1] = key
    THEN [k \in 1..Len(obj) |-> IF obj[k][1] = key THEN <<key, value>> ELSE obj[k]]
    ELSE Append(obj, <<key, value>>)

HasProp(obj, key) == \E k \in 1..Len(obj) : obj[k][1] = key
GetProp(obj, key) == obj[CHOOSE k \in 1..Len(obj) : obj[k][1] = key][2]
Keys(obj) == [k \in 1..Len(obj) |-> obj[k][1]]

-----------------------------------------------------------------------------
(* extractPlaceholders *)

\* Mutant of CertLoop: a missing certification gets no keys, as a missing
\* project does, and an unset field is stored as it is
RECURSIVE CertLoopOmit(_, _, _)
CertLoopOmit(o, oDetails, i) ==
    IF i >= CertSlots THEN o
    ELSE LET c == oDetails.certifications
         IN  IF i + 1 <= Len(c)
             THEN LET o1 == SetProp(o, Token(K_since \o NumStr(i)), c[i + 1].validFrom)
                      o2 == SetProp(o1, Token(K_competence \o NumStr(i)),
                                    c[i + 1].certification.name)
                  IN  CertLoopOmit(o2, oDetails, i + 1)
             ELSE CertLoopOmit(o, oDetails, i + 1)

\* lines 257-261: (certifications[i] && certifications[i].validFrom) || "" and
\* the same for certifications[i].certification.name
RECURSIVE CertLoop(_, _, _)
CertLoop(o, oDetails, i) ==
    IF i >= CertSlots THEN o
    ELSE LET c == oDetails.certifications
             has == i + 1 <= Len(c)
             o1 == SetProp(o, Token(K_since \o NumStr(i)),
                           IF has THEN OrEmpty(c[i + 1].validFrom) ELSE <<>>)
             o2 == SetProp(o1, Token(K_competence \o NumStr(i)),
                           IF has THEN OrEmpty(c[i + 1].certification.name) ELSE <<>>)
         IN  CertLoop(o2, oDetails, i + 1)

\* Mutant of ProjectLoop: a missing project gets empty values, as the
\* certifications do
RECURSIVE ProjectLoopBlank(_, _, _)
ProjectLoopBlank(o, oDetails, i) ==
    IF i >= ProjectSlots THEN o
    ELSE LET p == oDetails.projects
             has == i + 1 <= Len(p)
             o1 == SetProp(o, Token(K_projectRole \o NumStr(i)),
                           IF has THEN OrEmpty(p[i + 1].role_code) ELSE <<>>)
             o2 == SetProp(o1, Token(K_projectIndustry \o NumStr(i)),
                           IF has THEN OrEmpty(p[i + 1].project.domain_code) ELSE <<>>)
             o3 == SetProp(o2, Token(K_projectName \o NumStr(i)),
                           IF has THEN OrEmpty(p[i + 1].project.name) ELSE <<>>)
         IN  ProjectLoopBlank(o3, oDetails, i + 1)

RECURSIVE ProjectLoop(_, _, _)
ProjectLoop(o, oDetails, i) ==
    IF i >= ProjectSlots THEN o
    ELSE LET p == oDetails.projects
         IN  IF i + 1 <= Len(p)
             THEN LET o1 == SetProp(o, Token(K_projectRole \o NumStr(i)),
                                    OrEmpty(p[i + 1].role_code))
                      o2 == SetProp(o1, Token(K_projectIndustry \o NumStr(i)),
                                    OrEmpty(p[i + 1].project.domain_code))
                      o3 == SetProp(o2, Token(K_projectName \o NumStr(i)),
                                    OrEmpty(p[i + 1].project.name))
                  IN  ProjectLoop(o3, oDetails, i + 1)
             ELSE ProjectLoop(o, oDetails, i + 1)

\* Mutant of Truthy: an empty array counts as absent
TruthyWhenNonEmpty(list) == list # Null /\ Len(list) > 0

\* if (oDetails.languages): an array, empty or not, is truthy
Truthy(list) == list # Null

extractPlaceholders(oDetails) ==
    LET o0 == <<<<Token(K_fullName), OrEmpty(oDetails.fullName)>>>>
        o1 == CertLoop(o0, oDetails, 0)
        o2 == ProjectLoop(o1, oDetails, 0)
        o3 == IF Truthy(oDetails.languages)
              THEN SetProp(o2, Token(K_languages),
                     Join([k \in 1..Len(oDetails.languages) |->
                              oDetails.languages[k].language.description],
                          <<",", " ">>))
              ELSE o2
        o4 == IF Truthy(oDetails.skills)
              THEN SetProp(o3, Token(K_skills),
                     Join([k \in 1..Len(oDetails.skills) |->
                              oDetails.skills[k].skill.name],
                          <<"\n">>))
              ELSE o3
    IN  o4

-----------------------------------------------------------------------------
(* String.prototype.replace(new RegExp(sPlaceholder, "g"), value) *)

\* The two quote characters that may follow a dollar sign in a replacement
\* pattern.  The grave accent (U+0060) cannot be written in a string of this
\* module, so that one character is written by its name.
Backtick == "grave"
Apostrophe == "'"

\* GetSubstitution of ECMAScript for a pattern without capture groups: in the
\* replacement text $$ is a dollar sign, $& the matched text, $ with a
\* backtick the text before the match, $ with an apostrophe the text after
\* it; any other $ stands for itself.
RECURSIVE GetSubstitution(_, _, _, _)
GetSubstitution(matched, before, after, replacement) ==
    IF Len(replacement) = 0 THEN <<>>
    ELSE IF replacement[1] = "$" /\ Len(replacement) >= 2
              /\ replacement[2] \in {"$", "&", Backtick, Apostrophe}
         THEN LET rest == SubSeq(replacement, 3, Len(replacement))
                  sub == CASE replacement[2] = "$" -> <<"$">>
                           [] replacement[2] = "&" -> matched
                           [] replacement[2] = Backtick -> before
                           [] OTHER -> after
              IN  sub \o GetSubstitution(matched, before, after, rest)
         ELSE <<replacement[1]>>
                  \o GetSubstitution(matched, before, after, Tail(replacement))

\* The pattern built from a token {{name}} has no metacharacter that the
\* regular-expression grammar gives a meaning to (a brace that opens no
\* quantifier is a literal), so it matches the token text itself.
MatchAt(sContent, sPlaceholder, p) ==
    /\ p + Len(sPlaceholder) - 1 <= Len(sContent)
    /\ sContent[p] = sPlaceholder[1]
    /\ SubSeq(sContent, p, p + Len(sPlaceholder) - 1) = sPlaceholder

\* The first match at or after position p, or 0 when there is none
NextMatch(sContent, sPlaceholder, p) ==
    LET found == {q \in p..Len(sContent) : MatchAt(sContent, sPlaceholder, q)}
    IN  IF found = {} THEN 0
        ELSE CHOOSE q \in found : \A q2 \in found : q <= q2

\* Global replace: the matches are found left to right in sContent, without
\* overlap, and each is replaced by the expanded replacement text.
RECURSIVE ReplaceFrom(_, _, _, _)
ReplaceFrom(sContent, sPlaceholder, value, p) ==
    LET q == NextMatch(sContent, sPlaceholder, p)
    IN  IF q = 0 THEN SubSeq(sContent, p, Len(sContent))
        ELSE SubSeq(sContent, p, q - 1)
                 \o GetSubstitution(sPlaceholder,
                                    SubSeq(sContent, 1, q - 1),
                                    SubSeq(sContent, q + Len(sPlaceholder),
                                           Len(sContent)),
                                    value)
                 \o ReplaceFrom(sContent, sPlaceholder, value, q + Len(sPlaceholder))

Replace(sContent, sPlaceholder, value) ==
    ReplaceFrom(sContent, sPlaceholder, value, 1)

\* Object.keys(placeholders).reduce(replace, sFileData): the content after
\* the first k placeholders, in key order
RECURSIVE ReducePlaceholders(_, _, _)
ReducePlaceholders(sFileData, placeholders, k) ==
    IF k = 0 THEN sFileData
    ELSE LET sContent == ReducePlaceholders(sFileData, placeholders, k - 1)
         IN  IF Len(sContent) = 0 THEN sContent      \* nothing to match in ""
             ELSE Replace(sContent, placeholders[k][1], placeholders[k][2])

-----------------------------------------------------------------------------
(* The container (JSZip): its files as <<name, data>> pairs in insertion order. *)
(* A part name is the sequence of the fragments of its path.                  *)

SlidePrefix == <<"ppt/", "slides/", "slide">>            \* "ppt/slides/slide"
SlideName(n) == SlidePrefix \o <<n, ".xml">>
AvatarPart == <<"ppt/", "media/", "image23.png">>        \* "ppt/media/image23.png"

\* Mutant of Includes: every part of the slides folder counts as a slide
IncludesFolder(fn, part) ==
    \E p \in 1..Len(fn) :
        /\ p + 1 <= Len(fn)
        /\ SubSeq(fn, p, p + 1) = SubSeq(part, 1, 2)

\* fn.includes("ppt/slides/slide")
Includes(fn, part) ==
    \E p \in 1..Len(fn) :
        /\ p + Len(part) - 1 <= Len(fn)
        /\ SubSeq(fn, p, p + Len(part) - 1) = part

\* zip.file(name, data)
ZipFile(zip, name, data) == SetProp(zip, name, data)

\* zip.file(name).async(...)
ZipRead(zip, name) == GetProp(zip, name)

\* JSZip.loadAsync(buffer) / zip.generateAsync(): the buffer of a container
\* lists the parts in the order of the files
Serialize(zip) == [kind |-> "zip", parts |-> zip]

\* Mutant of LoadAsync: the parse is cached and shared, so a call made while
\* another render is rewriting its container gets that container
LoadAsyncCached(buffer) ==
    LET busy == {q \in DOMAIN oZip : Len(oZip[q]) > 0 /\ oZip[q] # buffer.parts}
    IN  IF busy = {} THEN buffer.parts ELSE oZip[CHOOSE q \in busy : TRUE]

\* every call parses the buffer into a new JSZip instance
LoadAsync(buffer) == buffer.parts

\* updateSlides: the slide names are taken first, then each slide is rewritten
RECURSIVE SlideLoop(_, _, _, _)
SlideLoop(zip, aSlideFiles, placeholders, k) ==
    IF k > Len(aSlideFiles) THEN zip
    ELSE LET sFileName == aSlideFiles[k]
             sFileData == ZipRead(zip, sFileName)
             sUpdatedFileData == ReducePlaceholders(sFileData, placeholders,
                                                    Len(placeholders))
         IN  SlideLoop(ZipFile(zip, sFileName, sUpdatedFileData),
                       aSlideFiles, placeholders, k + 1)

updateSlides(zip, placeholders) ==
    LET aSlideFiles == SelectSeq(Keys(zip), LAMBDA fn : Includes(fn, SlidePrefix))
    IN  SlideLoop(zip, aSlideFiles, placeholders, 1)

\* generateModifiedPPT as one function of what it reads: the template buffer,
\* the placeholders and the avatar buffer fetchAvatarBuffer resolves to
generateModifiedPPT(aTemplateBuffer, placeholders, aAvatarBuffer, bExternal) ==
    LET zip0 == LoadAsync(aTemplateBuffer)
        zip1 == IF ~bExternal /\ aAvatarBuffer # Null
                THEN ZipFile(zip0, AvatarPart, aAvatarBuffer)
                ELSE zip0
    IN  Serialize(updateSlides(zip1, placeholders))

-----------------------------------------------------------------------------
(* sendOnePagerResponse *)

ZipType == "application/zip"
PptxType == "application/vnd.openxmlformats-officedocument.presentationml.presentation"

\* OP_${aEmployeeIDs[index]}.pptx ; an index past the end reads undefined
OnePagerName(aEmployeeIDs, index) ==
    <<"OP_", IF index <= Len(aEmployeeIDs) THEN aEmployeeIDs[index] ELSE "undefined",
      ".pptx">>

\* aPPTBuffers.forEach((buffer, index) => zip.file(filename, buffer))
RECURSIVE ArchiveLoop(_, _, _, _)
ArchiveLoop(zip, buffers, aEmployeeIDs, index) ==
    IF index > Len(buffers) THEN zip
    ELSE ArchiveLoop(ZipFile(zip, OnePagerName(aEmployeeIDs, index), buffers[index]),
                     buffers, aEmployeeIDs, index + 1)

Undefined == [kind |-> "undefined", parts |-> <<>>]
NoResponse == [sent |-> FALSE, type |-> "", filename |-> <<>>, body |-> Undefined]

\* Mutant of IsArchive: a single document is bundled too
IsArchiveFromOne(buffers) == Len(buffers) >= 1

\* if (aPPTBuffers.length > 1)
IsArchive(buffers) == Len(buffers) > 1

sendOnePagerResponse(buffers, aEmployeeIDs) ==
    IF IsArchive(buffers)
    THEN [sent |-> TRUE, type |-> ZipType, filename |-> <<"OnePagers.zip">>,
          body |-> Serialize(ArchiveLoop(<<>>, buffers, aEmployeeIDs, 1))]
    ELSE [sent |-> TRUE, type |-> PptxType,
          filename |-> OnePagerName(aEmployeeIDs, 1),
          body |-> IF Len(buffers) >= 1 THEN buffers[1] ELSE Undefined]

-----------------------------------------------------------------------------
(* handleGenerateOP: the part that runs between the fetch of a profile and   *)
(* the call of generateModifiedPPT                                           *)

\* Array.prototype.sort with (a, b) => new Date(b.project.startDate) -
\* new Date(a.project.startDate): a stable sort, latest start date first.
\* Dates are day numbers.
\* Mutant of InsertProject: the comparator is a - b, oldest start date first
RECURSIVE InsertProjectAscending(_, _)
InsertProjectAscending(sorted, x) ==
    IF Len(sorted) = 0 THEN <<x>>
    ELSE IF sorted[1].project.startDate <= x.project.startDate
         THEN <<sorted[1]>> \o InsertProjectAscending(Tail(sorted), x)
         ELSE <<x>> \o sorted

RECURSIVE InsertProject(_, _)
InsertProject(sorted, x) ==
    IF Len(sorted) = 0 THEN <<x>>
    ELSE IF sorted[1].project.startDate >= x.project.startDate
         THEN <<sorted[1]>> \o InsertProject(Tail(sorted), x)
         ELSE <<x>> \o sorted

RECURSIVE SortProjects(_)
SortProjects(projects) ==
    IF Len(projects) = 0 THEN <<>>
    ELSE InsertProject(SortProjects(SubSeq(projects, 1, Len(projects) - 1)),
                       projects[Len(projects)])

\* oReq.data.sType === "external"
IsExternal(sType) == sType = "external"

\* Mutant of PrepareDetails: the name is kept in external mode
PrepareDetailsKeepName(oDetails, bIsExternal) ==
    [oDetails EXCEPT !.projects = SortProjects(oDetails.projects)]

\* lines 164-169: sort the projects, anonymise the name in external mode
PrepareDetails(oDetails, bIsExternal) ==
    LET sorted == [oDetails EXCEPT !.projects = SortProjects(oDetails.projects)]
    IN  IF bIsExternal THEN [sorted EXCEPT !.fullName = CapgeminiEmployee]
        ELSE sorted

-----------------------------------------------------------------------------
(* Stored data the requests run against *)

S_Ann == <<"A", "n", "n">>
S_Bo == <<"B", "o">>
S_Match == <<"$", "&">>                     \* a name holding "$&"
S_Dollars == <<"A", "$", "$", "B">>         \* a name holding "$$"
S_Date1 == <<"2", "0", "2", "1">>
S_Date2 == <<"2", "0", "2", "3">>
S_CAP == <<"C", "A", "P">>
S_BTP == <<"B", "T", "P">>
S_EN == <<"E", "N">>
S_DE == <<"D", "E">>
S_JS == <<"J", "S">>
S_TS == <<"T", "S">>

Cert1 == [validFrom |-> S_Date1, certification |-> [name |-> S_CAP]]
Cert2 == [validFrom |-> Null, certification |-> [name |-> S_BTP]]
Cert3 == [validFrom |-> S_Date2, certification |-> [name |-> Null]]

\* The k-th project of a profile, started on day `date`
Project(k, date) ==
    [role_code |-> <<"R", Digits[k + 1]>>,
     project |-> [domain_code |-> IF k = 2 THEN Null ELSE <<"D", Digits[k + 1]>>,
                  name |-> <<"N", Digits[k + 1]>>,
                  startDate |-> date]]

\* Stored orders of n projects: oldest first, latest first, or with equal dates
StartDate(pattern, k) ==
    CASE pattern = "asc" -> k
      [] pattern = "desc" -> 10 - k
      [] OTHER -> k % 2

ProjectList(n, pattern) == [k \in 1..n |-> Project(k, StartDate(pattern, k))]

Languages2 == <<[language |-> [description |-> S_EN]],
                [language |-> [description |-> S_DE]]>>
Skills2 == <<[skill |-> [name |-> S_JS]], [skill |-> [name |-> S_TS]]>>

Profile(id, fullName, certifications, projects, languages, skills) ==
    [ID |-> id, fullName |-> fullName, certifications |-> certifications,
     projects |-> projects, languages |-> languages, skills |-> skills]

\* The database of the batch runs: E1 is a full profile with an avatar image,
\* E2 an empty profile whose avatar row holds no data, E3 has no avatar row,
\* E9 has no profile.
BatchIDs == {"E1", "E2", "E3", "E9"}

BatchEmployees ==
    [id \in {"E1", "E2", "E3"} |->
        CASE id = "E1" -> Profile(id, S_Ann, <<Cert1, Cert2>>, ProjectList(3, "asc"),
                                  Languages2, Skills2)
          [] id = "E2" -> Profile(id, Null, <<>>, <<>>, <<>>, <<>>)
          [] OTHER -> Profile(id, S_Bo, <<Cert3>>, ProjectList(5, "ties"),
                              Languages2, <<>>)]

BatchAvatars ==
    [id \in {"E1", "E2"} |->
        IF id = "E1" THEN [data |-> <<"avatar:E1">>] ELSE [data |-> Null]]

\* The profiles drawn for a single-employee request
ProfileInputs ==
    {Profile("E1", n, c, ProjectList(k, pattern), l, s) :
        n \in {Null, S_Ann, S_Match, S_Dollars},
        c \in {<<>>, <<Cert1>>, <<Cert2, Cert3, Cert1>>},
        k \in 0..MaxProjects,
        pattern \in {"asc", "desc", "ties"},
        l \in {<<>>, Languages2},
        s \in {<<>>, Skills2}}

\* The template: two slides that hold every token (the name twice), the
\* avatar image and a part that no render touches.
SlideText1 ==
    <<"<", "a", ">">> \o Token(K_fullName) \o <<" ">> \o Token(K_fullName)
        \o <<"|">> \o Token(K_since \o NumStr(0)) \o Token(K_competence \o NumStr(0))
        \o <<"|">> \o Token(K_since \o NumStr(1)) \o Token(K_competence \o NumStr(1))
        \o <<"|">> \o Token(K_languages) \o <<"|">> \o Token(K_skills)
        \o <<"<", "/", "a", ">">>

SlideProject(i) ==
    Token(K_projectRole \o NumStr(i)) \o <<",">>
        \o Token(K_projectIndustry \o NumStr(i)) \o <<",">>
        \o Token(K_projectName \o NumStr(i)) \o <<";">>

SlideText2 ==
    <<"$", "1">> \o SlideProject(0) \o SlideProject(1) \o SlideProject(2)
        \o SlideProject(3)

PresentationPart == <<"ppt/", "presentation.xml">>

\* "ppt/slides/_rels/slide1.xml.rels": a part of the slides folder that is
\* not a slide; its text holds a token
SlideRelsPart == <<"ppt/", "slides/", "_rels/", "slide", "1", ".xml.rels">>
SlideRelsText == <<"<", "r", ">">> \o Token(K_fullName) \o <<"<", "/", "r", ">">>

Template ==
    << <<PresentationPart, <<"xml:presentation">> >>,
       <<SlideName("1"), SlideText1>>,
       <<SlideRelsPart, SlideRelsText>>,
       <<AvatarPart, <<"avatar:template">> >>,
       <<SlideName("2"), SlideText2>> >>

-----------------------------------------------------------------------------
(* The requests *)

Modes == {"external", "internal"}

RECURSIVE SeqsUpTo(_, _)
SeqsUpTo(S, n) ==
    IF n = 0 THEN {<<>>}
    ELSE LET shorter == SeqsUpTo(S, n - 1)
         IN  shorter \cup {Append(s, x) : s \in shorter, x \in S}

\* no call of the cipher helpers is made by handleGenerateOP
NoCipher == [data |-> <<>>, seed |-> <<>>, envelopes |-> <<>>, decrypted |-> <<>>]

Fresh(requests) ==
    /\ pc = [r \in requests |-> "start"]
    /\ iEmployee = [r \in requests |-> 1]
    /\ oEmployeeDetails = [r \in requests |-> Null]
    /\ oPlaceholders = [r \in requests |-> <<>>]
    /\ oZip = [r \in requests |-> <<>>]
    /\ aPPTBuffers = [r \in requests |-> <<>>]
    /\ res = [r \in requests |-> NoResponse]
    /\ oError = [r \in requests |-> [message |-> <<>>, code |-> NoCode]]
    /\ trace = [r \in requests |-> <<>>]
    /\ oCipher = NoCipher

\* One batch request over the batch database; aEmployeeIDs may be missing
InitBatch ==
    /\ Employees = BatchEmployees
    /\ Avatars = BatchAvatars
    /\ templateFile = Template
    /\ \E ids \in SeqsUpTo(BatchIDs, MaxBatch) \cup {Null}, sType \in Modes :
           oReq = [r \in {"r1"} |-> [aEmployeeIDs |-> ids, sType |-> sType]]
    /\ Fresh({"r1"})

\* One request for one employee whose profile is drawn from ProfileInputs
InitProfile ==
    /\ \E profile \in ProfileInputs : Employees = [id \in {"E1"} |-> profile]
    /\ Avatars = [id \in {"E1"} |-> [data |-> <<"avatar:E1">>]]
    /\ templateFile = Template
    /\ \E sType \in Modes :
           oReq = [r \in {"r1"} |-> [aEmployeeIDs |-> <<"E1">>, sType |-> sType]]
    /\ Fresh({"r1"})

Init == InitBatch \/ InitProfile

-----------------------------------------------------------------------------
(* handleGenerateOP, one action per awaited step *)

Requests == DOMAIN pc
EmployeeID(r) == oReq[r].aEmployeeIDs[iEmployee[r]]
bIsExternal(r) == IsExternal(oReq[r].sType)

\* for (const EmployeeID of aEmployeeIDs): after the last one comes the send
LoopPc(r, i) == IF i <= Len(oReq[r].aEmployeeIDs) THEN "fetch" ELSE "send"

Log(r, event) == trace' = [trace EXCEPT ![r] = Append(trace[r], event)]

\* Mutant of Throw: the catch block answers with what was rendered so far
ThrowAfterPartialResponse(r, message, code) ==
    /\ pc' = [pc EXCEPT ![r] = "failed"]
    /\ oError' = [oError EXCEPT ![r] =
                     [message |-> <<"Error while generating OnePager! ">> \o message,
                      code |-> code]]
    /\ res' = [res EXCEPT ![r] =
                  sendOnePagerResponse(aPPTBuffers[r], oReq[r].aEmployeeIDs)]
    /\ UNCHANGED <<Employees, Avatars, templateFile, oReq, iEmployee,
                   oEmployeeDetails, oPlaceholders, oZip, aPPTBuffers, trace>>

\* The catch block of handleGenerateOP: whatever was thrown inside the try
\* block is thrown again with the prefixed message and the code it had.
Throw(r, message, code) ==
    /\ pc' = [pc EXCEPT ![r] = "failed"]
    /\ oError' = [oError EXCEPT ![r] =
                     [message |-> <<"Error while generating OnePager! ">> \o message,
                      code |-> code]]
    /\ UNCHANGED <<Employees, Avatars, templateFile, oReq, iEmployee,
                   oEmployeeDetails, oPlaceholders, oZip, aPPTBuffers, res, trace>>

\* Mutant of NotFoundMessage: the message does not name the identifier
NotFoundMessageWithoutID(id) == <<"There are no Employee with ID: ", "">>

\* cds.error(`There are no Employee with ID: ${EmployeeID}`, { code: 404 })
NotFoundMessage(id) == <<"There are no Employee with ID: ", id>>

\* oReq.data.aEmployeeIDs || cds.error(...): an array, empty or not, is truthy
HasEmployeeIDs(ids) == ids # Null

\* lines 157-160: read the list and enter the loop
Start(r) ==
    /\ pc[r] = "start"
    /\ \/ /\ HasEmployeeIDs(oReq[r].aEmployeeIDs)
          /\ pc' = [pc EXCEPT ![r] = LoopPc(r, 1)]
          /\ UNCHANGED <<Employees, Avatars, templateFile, oReq, iEmployee,
                         oEmployeeDetails, oPlaceholders, oZip, aPPTBuffers, res,
                         oError, trace>>
       \/ /\ ~HasEmployeeIDs(oReq[r].aEmployeeIDs)
          /\ Throw(r, <<"There are no valid Employee ID array">>, BadRequestCode)

\* lines 161-171: the profile arrives; it is sorted, anonymised and the
\* placeholders are extracted before the next await
FetchEmployee(r) ==
    /\ pc[r] = "fetch"
    /\ \/ /\ EmployeeID(r) \in DOMAIN Employees
          /\ LET oDetails == PrepareDetails(Employees[EmployeeID(r)], bIsExternal(r))
             IN  /\ oEmployeeDetails' = [oEmployeeDetails EXCEPT ![r] = oDetails]
                 /\ oPlaceholders' = [oPlaceholders EXCEPT ![r] =
                                         extractPlaceholders(oDetails)]
          /\ pc' = [pc EXCEPT ![r] = "readFile"]
          /\ Log(r, <<"fetch", iEmployee[r], EmployeeID(r)>>)
          /\ UNCHANGED <<Employees, Avatars, templateFile, oReq, iEmployee, oZip,
                         aPPTBuffers, res, oError>>
       \/ /\ EmployeeID(r) \notin DOMAIN Employees
          /\ Throw(r, NotFoundMessage(EmployeeID(r)), NotFoundCode)
       \/ Throw(r, <<"database error">>, NoCode)      \* the SELECT is rejected

\* lines 291-293: fs.readFile and JSZip.loadAsync
ReadTemplate(r) ==
    /\ pc[r] = "readFile"
    /\ \/ /\ oZip' = [oZip EXCEPT ![r] = LoadAsync(Serialize(templateFile))]
          /\ pc' = [pc EXCEPT ![r] = IF bIsExternal(r) THEN "slides" ELSE "avatar"]
          /\ Log(r, <<"readFile", iEmployee[r], EmployeeID(r)>>)
          /\ UNCHANGED <<Employees, Avatars, templateFile, oReq, iEmployee,
                         oEmployeeDetails, oPlaceholders, aPPTBuffers, res, oError>>
       \/ Throw(r, <<"template cannot be read">>, NoCode)

\* lines 295-300 with fetchAvatarBuffer (220-243), internal mode only
FetchAvatar(r) ==
    /\ pc[r] = "avatar"
    /\ \/ /\ EmployeeID(r) \in DOMAIN Avatars
          /\ Avatars[EmployeeID(r)].data # Null
          /\ oZip' = [oZip EXCEPT ![r] =
                         ZipFile(oZip[r], AvatarPart, Avatars[EmployeeID(r)].data)]
          /\ pc' = [pc EXCEPT ![r] = "slides"]
          /\ Log(r, <<"avatar", iEmployee[r], EmployeeID(r)>>)
          /\ UNCHANGED <<Employees, Avatars, templateFile, oReq, iEmployee,
                         oEmployeeDetails, oPlaceholders, aPPTBuffers, res, oError>>
       \/ /\ EmployeeID(r) \in DOMAIN Avatars
          /\ Avatars[EmployeeID(r)].data = Null          \* return null
          /\ pc' = [pc EXCEPT ![r] = "slides"]
          /\ Log(r, <<"avatar", iEmployee[r], EmployeeID(r)>>)
          /\ UNCHANGED <<Employees, Avatars, templateFile, oReq, iEmployee,
                         oEmployeeDetails, oPlaceholders, oZip, aPPTBuffers, res,
                         oError>>
       \/ /\ EmployeeID(r) \in DOMAIN Avatars
          /\ Avatars[EmployeeID(r)].data # Null          \* the stream emits "error"
          /\ Throw(r, <<"avatar stream error">>, NoCode)
       \/ /\ EmployeeID(r) \notin DOMAIN Avatars         \* oResult[0] is undefined
          /\ Throw(r, <<"Cannot read properties of undefined (reading 'data')">>,
                   NoCode)

\* line 302: updateSlides
UpdateSlides(r) ==
    /\ pc[r] = "slides"
    /\ oZip' = [oZip EXCEPT ![r] = updateSlides(oZip[r], oPlaceholders[r])]
    /\ pc' = [pc EXCEPT ![r] = "generate"]
    /\ Log(r, <<"slides", iEmployee[r], EmployeeID(r)>>)
    /\ UNCHANGED <<Employees, Avatars, templateFile, oReq, iEmployee,
                   oEmployeeDetails, oPlaceholders, aPPTBuffers, res, oError>>

\* Mutant of PushBuffer: the buffer is put in front (unshift)
PushBufferInFront(buffers, buffer) == <<buffer>> \o buffers

\* aPPTBuffers.push(aModifiedPPT)
PushBuffer(buffers, buffer) == Append(buffers, buffer)

\* lines 303 and 173: generateAsync, push, next employee
Generate(r) ==
    /\ pc[r] = "generate"
    /\ aPPTBuffers' = [aPPTBuffers EXCEPT ![r] = PushBuffer(aPPTBuffers[r], Serialize(oZip[r]))]
    /\ iEmployee' = [iEmployee EXCEPT ![r] = @ + 1]
    /\ pc' = [pc EXCEPT ![r] = LoopPc(r, iEmployee[r] + 1)]
    /\ Log(r, <<"rendered", iEmployee[r], EmployeeID(r)>>)
    /\ UNCHANGED <<Employees, Avatars, templateFile, oReq, oEmployeeDetails,
                   oPlaceholders, oZip, res, oError>>

\* line 176: sendOnePagerResponse
Send(r) ==
    /\ pc[r] = "send"
    /\ res' = [res EXCEPT ![r] =
                  sendOnePagerResponse(aPPTBuffers[r], oReq[r].aEmployeeIDs)]
    /\ pc' = [pc EXCEPT ![r] = "done"]
    /\ Log(r, <<"send", Len(aPPTBuffers[r]), "">>)
    /\ UNCHANGED <<Employees, Avatars, templateFile, oReq, iEmployee,
                   oEmployeeDetails, oPlaceholders, oZip, aPPTBuffers, oError>>

Next ==
    \/ \E r \in Requests : Start(r) /\ UNCHANGED oCipher
    \/ \E r \in Requests : FetchEmployee(r) /\ UNCHANGED oCipher
    \/ \E r \in Requests : ReadTemplate(r) /\ UNCHANGED oCipher
    \/ \E r \in Requests : FetchAvatar(r) /\ UNCHANGED oCipher
    \/ \E r \in Requests : UpdateSlides(r) /\ UNCHANGED oCipher
    \/ \E r \in Requests : Generate(r) /\ UNCHANGED oCipher
    \/ \E r \in Requests : Send(r) /\ UNCHANGED oCipher

Spec == Init /\ [][Next]_vars

-----------------------------------------------------------------------------
(* Two requests served at the same time: the steps of handleGenerateOP of    *)
(* the two interleave at every await                                         *)

\* The avatar table of the concurrent runs: E1 and E3 have an image
ConcurrentAvatars ==
    [id \in {"E1", "E2", "E3"} |->
        CASE id = "E1" -> [data |-> <<"avatar:E1">>]
          [] id = "E2" -> [data |-> Null]
          [] OTHER -> [data |-> <<"avatar:E3">>]]

InitConcurrent ==
    /\ Employees = BatchEmployees
    /\ Avatars = ConcurrentAvatars
    /\ templateFile = Template
    /\ \E ids1 \in {<<"E1">>, <<"E1", "E2">>},
          ids2 \in {<<"E3">>, <<"E3", "E1">>, <<"E9">>},
          sType1 \in Modes, sType2 \in Modes :
           oReq = [r \in {"r1", "r2"} |->
                      IF r = "r1" THEN [aEmployeeIDs |-> ids1, sType |-> sType1]
                      ELSE [aEmployeeIDs |-> ids2, sType |-> sType2]]
    /\ Fresh({"r1", "r2"})

SpecConcurrent == InitConcurrent /\ [][Next]_vars

-----------------------------------------------------------------------------
(* generateModifiedPPT on its own: a call with a drawn placeholder object,   *)
(* mode and avatar table, started at its first statement                     *)

\* The placeholder objects of the calls: the empty object and the objects
\* extracted from profiles with every name, certificate list and project count
RenderPlaceholders ==
    {<<>>} \cup
    {extractPlaceholders(Profile("E1", n, c, ProjectList(k, "asc"), Languages2, Skills2)) :
        n \in {Null, S_Ann, S_Match, S_Dollars},
        c \in {<<>>, <<Cert1>>, <<Cert2, Cert3, Cert1>>},
        k \in 0..MaxProjects}

\* The avatar tables of the calls: an image, a row without data, no row
RenderAvatars ==
    {[id \in {"E1"} |-> [data |-> <<"avatar:E1">>]],
     [id \in {"E1"} |-> [data |-> Null]],
     [id \in {"E2"} |-> [data |-> <<"avatar:E2">>]]}

InitRender ==
    /\ Employees = BatchEmployees
    /\ Avatars \in RenderAvatars
    /\ templateFile = Template
    /\ \E sType \in Modes :
           oReq = [r \in {"r1"} |-> [aEmployeeIDs |-> <<"E1">>, sType |-> sType]]
    /\ pc = [r \in {"r1"} |-> "readFile"]
    /\ iEmployee = [r \in {"r1"} |-> 1]
    /\ oEmployeeDetails = [r \in {"r1"} |-> Null]
    /\ oPlaceholders \in [{"r1"} -> RenderPlaceholders]
    /\ oZip = [r \in {"r1"} |-> <<>>]
    /\ aPPTBuffers = [r \in {"r1"} |-> <<>>]
    /\ res = [r \in {"r1"} |-> NoResponse]
    /\ oError = [r \in {"r1"} |-> [message |-> <<>>, code |-> NoCode]]
    /\ trace = [r \in {"r1"} |-> <<>>]
    /\ oCipher = NoCipher

NextRender ==
    \/ \E r \in Requests : ReadTemplate(r) /\ UNCHANGED oCipher
    \/ \E r \in Requests : FetchAvatar(r) /\ UNCHANGED oCipher
    \/ \E r \in Requests : UpdateSlides(r) /\ UNCHANGED oCipher
    \/ \E r \in Requests : Generate(r) /\ UNCHANGED oCipher

SpecRender == InitRender /\ [][NextRender]_vars

-----------------------------------------------------------------------------
(* The cipher helpers _generateKey, _encrypt and _decrypt (lines 116-149).   *)
(* A JavaScript string is the sequence of its UTF-16 code units, a Buffer    *)
(* the sequence of its bytes, a hex string a sequence of one-character       *)
(* strings.                                                                  *)

BlockSize == 16           \* bytes of an AES block and of the IV
DigestSize == 32          \* bytes of a SHA-256 digest, the AES-256 key

IsHighSurrogate(u) == 55296 <= u /\ u <= 56319      \* D800..DBFF
IsLowSurrogate(u) == 56320 <= u /\ u <= 57343       \* DC00..DFFF
ReplacementChar == <<65533>>                         \* U+FFFD

\* The "utf8" input encoding of cipher.update and hash.update: a surrogate
\* pair is one code point of four bytes, a surrogate without its partner is
\* encoded as U+FFFD
RECURSIVE Utf8Encode(_)
Utf8Encode(units) ==
    IF Len(units) = 0 THEN <<>>
    ELSE LET u == units[1]
         IN  IF u < 128 THEN <<u>> \o Utf8Encode(Tail(units))
             ELSE IF u < 2048
                  THEN <<192 + (u \div 64), 128 + (u % 64)>> \o Utf8Encode(Tail(units))
             ELSE IF IsHighSurrogate(u) /\ Len(units) >= 2 /\ IsLowSurrogate(units[2])
                  THEN LET cp == 65536 + (u - 55296) * 1024 + (units[2] - 56320)
                       IN  <<240 + (cp \div 262144), 128 + ((cp \div 4096) % 64),
                             128 + ((cp \div 64) % 64), 128 + (cp % 64)>>
                               \o Utf8Encode(SubSeq(units, 3, Len(units)))
             ELSE IF IsHighSurrogate(u) \/ IsLowSurrogate(u)
                  THEN <<239, 191, 189>> \o Utf8Encode(Tail(units))
             ELSE <<224 + (u \div 4096), 128 + ((u \div 64) % 64), 128 + (u % 64)>>
                      \o Utf8Encode(Tail(units))

IsContinuation(bytes, k) == k <= Len(bytes) /\ 128 <= bytes[k] /\ bytes[k] < 192

\* The "utf8" output encoding of decipher.update and decipher.final (one
\* decoder over both calls): bytes that are no UTF-8 sequence give U+FFFD
RECURSIVE Utf8Decode(_)
Utf8Decode(bytes) ==
    IF Len(bytes) = 0 THEN <<>>
    ELSE LET b == bytes[1]
             rest(n) == Utf8Decode(SubSeq(bytes, n + 1, Len(bytes)))
         IN  IF b < 128 THEN <<b>> \o rest(1)
             ELSE IF 194 <= b /\ b < 224 /\ IsContinuation(bytes, 2)
                  THEN <<(b - 192) * 64 + (bytes[2] - 128)>> \o rest(2)
             ELSE IF 224 <= b /\ b < 240 /\ IsContinuation(bytes, 2)
                         /\ IsContinuation(bytes, 3)
                  THEN LET cp == (b - 224) * 4096 + (bytes[2] - 128) * 64 + (bytes[3] - 128)
                       IN  IF cp < 2048 \/ IsHighSurrogate(cp) \/ IsLowSurrogate(cp)
                           THEN ReplacementChar \o rest(1)
                           ELSE <<cp>> \o rest(3)
             ELSE IF 240 <= b /\ b < 245 /\ IsContinuation(bytes, 2)
                         /\ IsContinuation(bytes, 3) /\ IsContinuation(bytes, 4)
                  THEN LET cp == (b - 240) * 262144 + (bytes[2] - 128) * 4096
                                   + (bytes[3] - 128) * 64 + (bytes[4] - 128)
                       IN  IF cp < 65536 \/ cp > 1114111
                           THEN ReplacementChar \o rest(1)
                           ELSE <<55296 + ((cp - 65536) \div 1024),
                                  56320 + ((cp - 65536) % 1024)>> \o rest(4)
             ELSE ReplacementChar \o rest(1)

HexDigits == <<"0", "1", "2", "3", "4", "5", "6", "7", "8", "9",
               "a", "b", "c", "d", "e", "f">>

\* buffer.toString("hex") and the "hex" output encoding
RECURSIVE HexEncode(_)
HexEncode(bytes) ==
    IF Len(bytes) = 0 THEN <<>>
    ELSE <<HexDigits[(bytes[1] \div 16) + 1], HexDigits[(bytes[1] % 16) + 1]>>
             \o HexEncode(Tail(bytes))

IsHexDigit(c) == \E d \in 1..16 : HexDigits[d] = c
HexValue(c) == (CHOOSE d \in 1..16 : HexDigits[d] = c) - 1

\* Buffer.from(text, "hex") and the "hex" input encoding: pairs of digits are
\* decoded up to the first pair that is not hexadecimal
RECURSIVE HexDecode(_)
HexDecode(text) ==
    IF Len(text) < 2 \/ ~IsHexDigit(text[1]) \/ ~IsHexDigit(text[2]) THEN <<>>
    ELSE <<HexValue(text[1]) * 16 + HexValue(text[2])>>
             \o HexDecode(SubSeq(text, 3, Len(text)))

\* text.split(":"): the pieces between the separators, in order
RECURSIVE Split(_, _)
Split(text, sep) ==
    LET at == {k \in 1..Len(text) : text[k] = sep}
    IN  IF at = {} THEN <<text>>
        ELSE LET k == CHOOSE k1 \in at : \A k2 \in at : k1 <= k2
             IN  <<SubSeq(text, 1, k - 1)>> \o Split(SubSeq(text, k + 1, Len(text)), sep)

\* crypto.createHash("sha256").update(seed).digest(): a stand-in for the hash
\* of the library, a fixed function from the bytes of the seed to DigestSize
\* bytes
RECURSIVE WeightedSum(_, _)
WeightedSum(bytes, w) ==
    IF Len(bytes) = 0 THEN 0
    ELSE (bytes[1] * (w + 1) + WeightedSum(Tail(bytes), w + 1)) % 256

Sha256(bytes) ==
    [i \in 1..DigestSize |-> (WeightedSum(bytes, i) + 31 * i + Len(bytes)) % 256]

generateKey(seed) == Sha256(Utf8Encode(seed))

\* The block cipher of the library under a key: a stand-in that, like AES, is
\* a permutation of the blocks for every key and has the inverse below
AesEncryptBlock(key, block) ==
    [i \in 1..BlockSize |->
        (block[(i % BlockSize) + 1] + key[i] + 7 * key[i + BlockSize]) % 256]

AesDecryptBlock(key, block) ==
    [j \in 1..BlockSize |->
        LET i == ((j + BlockSize - 2) % BlockSize) + 1
        IN  (block[i] + 2048 - key[i] - 7 * key[i + BlockSize]) % 256]

RECURSIVE XorByte(_, _, _)
XorByte(a, b, bits) ==
    IF bits = 0 THEN 0
    ELSE ((a + b) % 2) + 2 * XorByte(a \div 2, b \div 2, bits - 1)

XorBlock(x, y) == [i \in 1..BlockSize |-> XorByte(x[i], y[i], 8)]

\* The standard block padding of the cipher: n bytes of value n, 1 <= n <= 16
Pad(bytes) ==
    LET n == BlockSize - (Len(bytes) % BlockSize)
    IN  bytes \o [i \in 1..n |-> n]

\* CBC: every block is combined with the ciphertext block before it, the first
\* with the IV
RECURSIVE CbcEncrypt(_, _, _)
CbcEncrypt(key, previous, padded) ==
    IF Len(padded) = 0 THEN <<>>
    ELSE LET c == AesEncryptBlock(key, XorBlock(SubSeq(padded, 1, BlockSize), previous))
         IN  c \o CbcEncrypt(key, c, SubSeq(padded, BlockSize + 1, Len(padded)))

RECURSIVE CbcDecrypt(_, _, _)
CbcDecrypt(key, previous, bytes) ==
    IF Len(bytes) = 0 THEN <<>>
    ELSE LET c == SubSeq(bytes, 1, BlockSize)
         IN  XorBlock(AesDecryptBlock(key, c), previous)
                 \o CbcDecrypt(key, c, SubSeq(bytes, BlockSize + 1, Len(bytes)))

\* decipher.final checks the padding of the last block
PaddingOk(bytes) ==
    /\ Len(bytes) >= BlockSize
    /\ LET n == bytes[Len(bytes)]
       IN  /\ 1 <= n
           /\ n <= BlockSize
           /\ \A k \in (Len(bytes) - n + 1)..Len(bytes) : bytes[k] = n

\* Mutant of Envelope: the two parts are joined without the colon
EnvelopeWithoutColon(iv, encrypted) == HexEncode(iv) \o encrypted

\* `${iv.toString("hex")}:${encrypted}`
Envelope(iv, encrypted) == HexEncode(iv) \o <<":">> \o encrypted

\* _encrypt(data, seed), with iv the bytes crypto.randomBytes(16) returned
encrypt(data, seed, iv) ==
    LET key == generateKey(seed)
        encrypted == HexEncode(CbcEncrypt(key, iv, Pad(Utf8Encode(data))))
    IN  Envelope(iv, encrypted)

Thrown(message) == [threw |-> TRUE, value |-> message]
Returned(value) == [threw |-> FALSE, value |-> value]

\* _decrypt(hashedData, seed): what it returns or throws
decrypt(hashedData, seed) ==
    LET key == generateKey(seed)
        parts == Split(hashedData, ":")
    IN  IF Len(parts) < 2 THEN Thrown("encrypted is undefined")
        ELSE LET iv == HexDecode(parts[1])
                 bytes == HexDecode(parts[2])
             IN  IF Len(iv) # BlockSize THEN Thrown("Invalid initialization vector")
                 ELSE IF Len(bytes) % BlockSize # 0 THEN Thrown("wrong final block length")
                 ELSE LET decrypted == CbcDecrypt(key, iv, bytes)
                      IN  IF ~PaddingOk(decrypted) THEN Thrown("bad decrypt")
                          ELSE Returned(Utf8Decode(
                                   SubSeq(decrypted, 1,
                                          Len(decrypted) - decrypted[Len(decrypted)])))

-----------------------------------------------------------------------------
(* Calls of the cipher helpers: _encrypt is called with one plaintext and    *)
(* seed up to MaxEncrypts times, and every envelope is given to _decrypt     *)
(* with the same seed                                                        *)

MaxEncrypts == 2          \* _encrypt calls of a run

Repeat(x, n) == [i \in 1..n |-> x]

\* "", "a", 15, 16 and 17 letters, a colon, two characters of two and three
\* bytes, a surrogate pair, a high surrogate without its partner
CipherPlaintexts ==
    {<<>>, <<97>>, Repeat(98, BlockSize - 1), Repeat(99, BlockSize),
     Repeat(100, BlockSize + 1), <<58>>, <<233, 8364>>, <<55357, 56832>>,
     <<97, 55296>>}

CipherSeeds == {<<>>, <<115, 51>>, <<233>>}

\* stand-ins for the values crypto.randomBytes(16) can return
RandomBytes ==
    {Repeat(0, BlockSize), Repeat(255, BlockSize), [i \in 1..BlockSize |-> 17 * (i - 1)]}

InitCipher ==
    /\ Employees = BatchEmployees
    /\ Avatars = BatchAvatars
    /\ templateFile = Template
    /\ oReq = [r \in {} |-> 0]
    /\ pc = [r \in {} |-> 0]
    /\ iEmployee = [r \in {} |-> 0]
    /\ oEmployeeDetails = [r \in {} |-> 0]
    /\ oPlaceholders = [r \in {} |-> 0]
    /\ oZip = [r \in {} |-> 0]
    /\ aPPTBuffers = [r \in {} |-> 0]
    /\ res = [r \in {} |-> 0]
    /\ oError = [r \in {} |-> 0]
    /\ trace = [r \in {} |-> 0]
    /\ \E data \in CipherPlaintexts, seed \in CipherSeeds :
           oCipher = [data |-> data, seed |-> seed, envelopes |-> <<>>,
                      decrypted |-> <<>>]

HandlerUnchanged ==
    UNCHANGED <<Employees, Avatars, templateFile, oReq, pc, iEmployee,
                oEmployeeDetails, oPlaceholders, oZip, aPPTBuffers, res, oError,
                trace>>

Encrypt ==
    /\ Len(oCipher.envelopes) < MaxEncrypts
    /\ \E iv \in RandomBytes :
           oCipher' = [oCipher EXCEPT
                          !.envelopes = Append(@, encrypt(oCipher.data, oCipher.seed, iv))]
    /\ HandlerUnchanged

Decrypt ==
    /\ Len(oCipher.decrypted) < Len(oCipher.envelopes)
    /\ oCipher' = [oCipher EXCEPT
                      !.decrypted = Append(@,
                          decrypt(oCipher.envelopes[Len(oCipher.decrypted) + 1],
                                  oCipher.seed))]
    /\ HandlerUnchanged

NextCipher == Encrypt \/ Decrypt

SpecCipher == InitCipher /\ [][NextCipher]_vars

-----------------------------------------------------------------------------
(* Vocabulary of the properties *)

IDs(r) == oReq[r].aEmployeeIDs
Failed(r) == pc[r] = "failed"
\* a profile has been fetched
Fetched(r) == \E e \in 1..Len(trace[r]) : trace[r][e][1] = "fetch"

\* The document of employee id under the mode of request r
DocumentOf(r, id) ==
    generateModifiedPPT(Serialize(templateFile),
                        extractPlaceholders(PrepareDetails(Employees[id], bIsExternal(r))),
                        IF id \in DOMAIN Avatars THEN Avatars[id].data ELSE Null,
                        bIsExternal(r))

\* The identifier of the profile fetched last by request r
LastFetched(r) ==
    LET fetches == {e \in 1..Len(trace[r]) : trace[r][e][1] = "fetch"}
    IN  trace[r][CHOOSE e \in fetches : \A e2 \in fetches : e2 <= e][3]

ErrorPrefix == <<"Error while generating OnePager! ">>

IsPrefix(s, t) == Len(s) <= Len(t) /\ SubSeq(t, 1, Len(s)) = s

\* The awaited steps of employee i of request r, in the order of the code
StepsOf(r, i) ==
    LET id == IDs(r)[i]
    IN  <<<<"fetch", i, id>>, <<"readFile", i, id>>>>
            \o (IF bIsExternal(r) THEN <<>> ELSE <<<<"avatar", i, id>>>>)
            \o <<<<"slides", i, id>>, <<"rendered", i, id>>>>

RECURSIVE StepsUpTo(_, _)
StepsUpTo(r, n) == IF n = 0 THEN <<>> ELSE StepsUpTo(r, n - 1) \o StepsOf(r, n)

SequentialTrace(r) == StepsUpTo(r, Len(IDs(r))) \o <<<<"send", Len(IDs(r)), "">>>>

-----------------------------------------------------------------------------
\* C1: a request in which the processing of an employee failed ends with an
\* error and never gets a response: a response is sent only by a request that
\* did not fail and rendered one document for every identifier of its list.
C1_NoPartialResponse ==
    \A r \in Requests :
        /\ Failed(r) => /\ res[r] = NoResponse
                        /\ IsPrefix(ErrorPrefix, oError[r].message)
        /\ res[r].sent => /\ pc[r] = "done"
                          /\ Len(aPPTBuffers[r]) = Len(IDs(r))

\* C1 witness: a batch fails at an employee after others were rendered
C1_Witness ==
    \E r \in Requests :
        /\ Failed(r)
        /\ Len(aPPTBuffers[r]) >= 1
        /\ iEmployee[r] < Len(IDs(r))

\* C2: a sent response of a request with N >= 2 identifiers is an archive
\* named OnePagers.zip of type application/zip with exactly N entries, the
\* i-th named OP_<i-th id>.pptx and holding the document of the i-th id.
C2_ArchiveHasNEntries ==
    \A r \in Requests :
        (res[r].sent /\ Len(IDs(r)) >= 2) =>
            /\ res[r].type = ZipType
            /\ res[r].filename = <<"OnePagers.zip">>
            /\ Len(res[r].body.parts) = Len(IDs(r))
            /\ \A i \in 1..Len(res[r].body.parts) :
                   res[r].body.parts[i]
                       = <<OnePagerName(IDs(r), i), DocumentOf(r, IDs(r)[i])>>

\* C3: a request with an empty identifier list is rejected before the send
\* stage: it never reaches sendOnePagerResponse and gets no response.
C3_EmptyListRejected ==
    \A r \in Requests :
        (HasEmployeeIDs(IDs(r)) /\ Len(IDs(r)) = 0) =>
            /\ pc[r] \notin {"send", "done"}
            /\ ~res[r].sent

\* The first position of the list of request r without a stored profile (0: none)
FirstMissing(r) ==
    LET missing == {k \in 1..Len(IDs(r)) : IDs(r)[k] \notin DOMAIN Employees}
    IN  IF missing = {} THEN 0 ELSE CHOOSE k \in missing : \A k2 \in missing : k <= k2

\* C4: when the lookup of an identifier finds no profile the request fails
\* with code 404 and a message that names the identifier; neither that
\* identifier nor one after it is rendered or fetched, and no response is sent.
C4_NotFoundAbortsBatch ==
    \A r \in Requests :
        (HasEmployeeIDs(IDs(r)) /\ FirstMissing(r) > 0) =>
            /\ ~res[r].sent
            /\ Len(aPPTBuffers[r]) < FirstMissing(r)
            /\ \A e \in 1..Len(trace[r]) : trace[r][e][2] < FirstMissing(r)
            /\ (Failed(r) /\ iEmployee[r] = FirstMissing(r)) =>
                   \/ /\ oError[r].code = NotFoundCode
                      /\ oError[r].message
                             = ErrorPrefix \o <<"There are no Employee with ID: ",
                                                IDs(r)[FirstMissing(r)]>>
                   \/ oError[r].message = ErrorPrefix \o <<"database error">>
            /\ (Failed(r) /\ oError[r].code = NotFoundCode) =>
                   iEmployee[r] = FirstMissing(r)

\* C4 witness: a batch ends with the 404 error at its third identifier
C4_Witness ==
    \E r \in Requests :
        /\ Failed(r)
        /\ oError[r].code = NotFoundCode
        /\ iEmployee[r] = 3
        /\ Len(aPPTBuffers[r]) = 2

\* C5: the awaited steps of a request happen in list order, all steps of one
\* employee before the fetch of the next and the send last; the i-th buffer
\* is the document of the i-th identifier.
C5_SequentialInListOrder ==
    \A r \in Requests :
        HasEmployeeIDs(IDs(r)) =>
            /\ IsPrefix(trace[r], SequentialTrace(r))
            /\ Len(aPPTBuffers[r]) <= Len(IDs(r))
            /\ pc[r] \in {"fetch", "send"} =>       \* a buffer has just been pushed
                   \A k \in 1..Len(aPPTBuffers[r]) :
                       aPPTBuffers[r][k] = DocumentOf(r, IDs(r)[k])
            /\ res[r].sent => trace[r] = SequentialTrace(r)

\* C5 witness: a batch of three different employees has been sent
C5_Witness ==
    \E r \in Requests :
        /\ res[r].sent
        /\ Len(IDs(r)) = 3
        /\ IDs(r)[1] # IDs(r)[2]
        /\ IDs(r)[2] # IDs(r)[3]

\* C6: the response of a request with exactly one identifier is the rendered
\* document itself, of the presentation type, named OP_<id>.pptx.
C6_SingleDocument ==
    \A r \in Requests :
        (res[r].sent /\ Len(IDs(r)) = 1) =>
            /\ res[r].type = PptxType
            /\ res[r].filename = <<"OP_", IDs(r)[1], ".pptx">>
            /\ res[r].body = aPPTBuffers[r][1]
            /\ res[r].body = DocumentOf(r, IDs(r)[1])

\* C6 witness: a single-identifier request has been answered
C6_Witness ==
    \E r \in Requests : res[r].sent /\ Len(IDs(r)) = 1

\* C7: in external mode the fullName placeholder of every employee is the
\* anonymised literal, no avatar is loaded and the avatar part of every
\* rendered document is the template's; in internal mode the fullName
\* placeholder is the stored full name (the empty string when none is stored).
C7_ExternalAnonymised ==
    \A r \in Requests :
        Fetched(r) =>
            IF oReq[r].sType = "external"
            THEN /\ GetProp(oPlaceholders[r], Token(K_fullName)) = CapgeminiEmployee
                 /\ \A e \in 1..Len(trace[r]) : trace[r][e][1] # "avatar"
                 /\ Len(oZip[r]) > 0 =>
                        ZipRead(oZip[r], AvatarPart) = ZipRead(templateFile, AvatarPart)
                 /\ \A k \in 1..Len(aPPTBuffers[r]) :
                        ZipRead(aPPTBuffers[r][k].parts, AvatarPart)
                            = ZipRead(templateFile, AvatarPart)
            ELSE GetProp(oPlaceholders[r], Token(K_fullName))
                     = OrEmpty(Employees[LastFetched(r)].fullName)

\* C7 witness: an external batch rendered two employees that have a stored
\* name, one of them with a stored avatar image
C7_Witness ==
    \E r \in Requests :
        /\ oReq[r].sType = "external"
        /\ Len(aPPTBuffers[r]) = 2
        /\ IDs(r)[1] = "E1"
        /\ IDs(r)[2] = "E3"

-----------------------------------------------------------------------------
(* Literal substitution, the reference the replacement is compared with *)

\* The placeholders whose token starts at position p of text
TokensAt(text, placeholders, p) ==
    {k \in 1..Len(placeholders) : MatchAt(text, placeholders[k][1], p)}

\* Every token occurrence of text replaced by exactly the mapped value, all
\* other characters kept
RECURSIVE SubstituteLiterally(_, _, _)
SubstituteLiterally(text, placeholders, p) ==
    LET starts == {q \in p..Len(text) : TokensAt(text, placeholders, q) # {}}
    IN  IF starts = {} THEN SubSeq(text, p, Len(text))
        ELSE LET q == CHOOSE q1 \in starts : \A q2 \in starts : q1 <= q2
                 k == CHOOSE k1 \in TokensAt(text, placeholders, q) : TRUE
             IN  SubSeq(text, p, q - 1) \o placeholders[k][2]
                     \o SubstituteLiterally(text, placeholders,
                                            q + Len(placeholders[k][1]))

\* How often token occurs in text
Occurrences(text, token) ==
    Cardinality({p \in 1..Len(text) : MatchAt(text, token, p)})

SlideNames == {SlideName("1"), SlideName("2")}
ProjectKeys == {K_projectRole, K_projectIndustry, K_projectName}

\* C8: after updateSlides every slide is the template slide with each token
\* occurrence replaced by exactly the mapped value, character for character,
\* and everything else unchanged.
C8_LiteralReplacement ==
    \A r \in Requests :
        pc[r] = "generate" =>
            \A fn \in SlideNames :
                ZipRead(oZip[r], fn)
                    = SubstituteLiterally(ZipRead(templateFile, fn), oPlaceholders[r], 1)

\* C9: the three project keys of index i are emitted exactly when the profile
\* has a project at index i < 4; the tokens of the other indices are still
\* in the slides after updateSlides.
C9_MissingProjectsKeepTokens ==
    \A r \in Requests :
        Fetched(r) =>
            LET n == Len(oEmployeeDetails[r].projects)
            IN  /\ \A i \in 0..MaxProjects, K \in ProjectKeys :
                       HasProp(oPlaceholders[r], Token(K \o NumStr(i)))
                           <=> (i < n /\ i < ProjectSlots)
                /\ pc[r] = "generate" =>
                       \A i \in 0..(ProjectSlots - 1), K \in ProjectKeys, fn \in SlideNames :
                           i >= n =>
                               Occurrences(ZipRead(oZip[r], fn), Token(K \o NumStr(i)))
                                   >= Occurrences(ZipRead(templateFile, fn),
                                                  Token(K \o NumStr(i)))

\* C9 witness: slides rendered for a profile with two projects, with the
\* tokens of index 3 in the second slide
C9_Witness ==
    \E r \in Requests :
        /\ pc[r] = "generate"
        /\ Len(oEmployeeDetails[r].projects) = 2
        /\ ~HasProp(oPlaceholders[r], Token(K_projectName \o NumStr(3)))
        /\ Occurrences(ZipRead(oZip[r], SlideName("2")),
                       Token(K_projectName \o NumStr(3))) = 1

\* C10 as stated: the languages key is omitted for an empty languages list
\* and the skills key for an empty skills list; for a non-empty list the value
\* is the descriptions joined by ", " or the names joined by a newline.
C10_KeysOmittedWhenEmpty ==
    \A r \in Requests :
        Fetched(r) =>
            LET l == oEmployeeDetails[r].languages
                s == oEmployeeDetails[r].skills
                descriptions == [k \in 1..Len(l) |-> l[k].language.description]
                names == [k \in 1..Len(s) |-> s[k].skill.name]
            IN  /\ Len(l) = 0 => ~HasProp(oPlaceholders[r], Token(K_languages))
                /\ Len(s) = 0 => ~HasProp(oPlaceholders[r], Token(K_skills))
                /\ Len(l) > 0 => GetProp(oPlaceholders[r], Token(K_languages))
                                     = Join(descriptions, <<",", " ">>)
                /\ Len(s) > 0 => GetProp(oPlaceholders[r], Token(K_skills))
                                     = Join(names, <<"\n">>)

\* C10 as amended: both keys are emitted for every fetched profile; the value
\* is the descriptions joined by ", " or the names joined by a newline, in
\* profile order, which is the empty string for an empty list.
C10_KeysEmittedAlsoWhenEmpty ==
    \A r \in Requests :
        Fetched(r) =>
            LET l == oEmployeeDetails[r].languages
                s == oEmployeeDetails[r].skills
                descriptions == [k \in 1..Len(l) |-> l[k].language.description]
                names == [k \in 1..Len(s) |-> s[k].skill.name]
            IN  /\ HasProp(oPlaceholders[r], Token(K_languages))
                /\ HasProp(oPlaceholders[r], Token(K_skills))
                /\ GetProp(oPlaceholders[r], Token(K_languages))
                       = Join(descriptions, <<",", " ">>)
                /\ GetProp(oPlaceholders[r], Token(K_skills)) = Join(names, <<"\n">>)
                /\ Len(l) = 0 => GetProp(oPlaceholders[r], Token(K_languages)) = <<>>
                /\ Len(s) = 0 => GetProp(oPlaceholders[r], Token(K_skills)) = <<>>
                /\ l = Languages2 =>
                       GetProp(oPlaceholders[r], Token(K_languages))
                           = <<"E", "N", ",", " ", "D", "E">>
                /\ s = Skills2 =>
                       GetProp(oPlaceholders[r], Token(K_skills))
                           = <<"J", "S", "\n", "T", "S">>

\* C10 witness: placeholders extracted from a profile without languages and
\* with two skills
C10_Witness ==
    \E r \in Requests :
        /\ Fetched(r)
        /\ Len(oEmployeeDetails[r].languages) = 0
        /\ Len(oEmployeeDetails[r].skills) = 2
        /\ HasProp(oPlaceholders[r], Token(K_languages))

-----------------------------------------------------------------------------
(* The frame of a render *)

\* The avatar bytes fetchAvatarBuffer resolves to for the employee of request
\* r (Null: no row, no data, or external mode where it is not called)
AvatarGiven(r) ==
    IF ~bIsExternal(r) /\ IDs(r)[1] \in DOMAIN Avatars
    THEN Avatars[IDs(r)[1]].data ELSE Null

\* The containers of request r: the one being rewritten and the rendered ones
Containers(r) ==
    (IF Len(oZip[r]) > 0 THEN {oZip[r]} ELSE {})
        \cup {aPPTBuffers[r][k].parts : k \in 1..Len(aPPTBuffers[r])}

-----------------------------------------------------------------------------
(* Isolation of concurrent renders *)

\* The stored names and avatar images of the employees other than id
ForeignNames(id) ==
    {Employees[o].fullName : o \in {o2 \in DOMAIN Employees :
                                        o2 # id /\ Employees[o2].fullName # Null}}
ForeignAvatars(id) ==
    {Avatars[o].data : o \in {o2 \in DOMAIN Avatars :
                                  o2 # id /\ Avatars[o2].data # Null}}

\* Container c holds nothing stored for an employee other than id
NothingForeign(c, id) ==
    /\ ZipRead(c, AvatarPart) \notin ForeignAvatars(id)
    /\ \A fn \in SlideNames, name \in ForeignNames(id) :
           Occurrences(ZipRead(c, fn), name) = 0

\* C12: in every interleaving of the steps of two requests the stored
\* template stays as it was; a render starts from a container equal to the
\* template; the container a request is rewriting and every document it has
\* rendered hold no name or avatar image of another employee, and each
\* rendered document is the document of its own identifier.
C12_RendersAreIsolated ==
    /\ templateFile = Template
    /\ \A r \in Requests :
           /\ (pc[r] = "avatar" \/ (pc[r] = "slides" /\ bIsExternal(r))) =>
                  oZip[r] = templateFile
           /\ pc[r] \in {"avatar", "slides", "generate"} =>
                  NothingForeign(oZip[r], EmployeeID(r))
           /\ pc[r] = "generate" =>
                  Serialize(oZip[r]) = DocumentOf(r, EmployeeID(r))
           /\ \A k \in 1..Len(aPPTBuffers[r]) :
                  /\ NothingForeign(aPPTBuffers[r][k].parts, IDs(r)[k])
                  /\ pc[r] \in {"fetch", "send"} =>
                         aPPTBuffers[r][k] = DocumentOf(r, IDs(r)[k])

\* C12 witness: two internal renders of different employees are in flight at
\* once, each with its own avatar image and name in its container
C12_Witness ==
    /\ pc["r1"] = "generate"
    /\ pc["r2"] = "generate"
    /\ ~bIsExternal("r1")
    /\ ~bIsExternal("r2")
    /\ EmployeeID("r1") = "E1"
    /\ EmployeeID("r2") = "E3"
    /\ ZipRead(oZip["r1"], AvatarPart) = <<"avatar:E1">>
    /\ ZipRead(oZip["r2"], AvatarPart) = <<"avatar:E3">>
    /\ Occurrences(ZipRead(oZip["r1"], SlideName("1")), S_Ann) = 2
    /\ Occurrences(ZipRead(oZip["r2"], SlideName("1")), S_Bo) = 2

-----------------------------------------------------------------------------
(* The certification placeholders *)

\* field || "" for a certification field that may be unset
FieldOrEmpty(certifications, i, field(_)) ==
    IF i + 1 <= Len(certifications) /\ field(certifications[i + 1]) # Null
    THEN field(certifications[i + 1]) ELSE <<>>

\* C13: for i in {0, 1} the placeholder object of every fetched profile has
\* the keys since{i} and competence{i}; since{i} is the validFrom and
\* competence{i} the name of certification i when the profile has that
\* certification and the field is set, the empty string otherwise; no value
\* of the placeholder object is null and every value is a string.
C13_CertificationKeysAlwaysEmitted ==
    \A r \in Requests :
        Fetched(r) =>
            LET c == oEmployeeDetails[r].certifications
                o == oPlaceholders[r]
            IN  /\ \A i \in 0..(CertSlots - 1) :
                       /\ HasProp(o, Token(K_since \o NumStr(i)))
                       /\ HasProp(o, Token(K_competence \o NumStr(i)))
                       /\ GetProp(o, Token(K_since \o NumStr(i)))
                              = FieldOrEmpty(c, i, LAMBDA x : x.validFrom)
                       /\ GetProp(o, Token(K_competence \o NumStr(i)))
                              = FieldOrEmpty(c, i, LAMBDA x : x.certification.name)
                /\ \A k \in 1..Len(o) :
                       /\ o[k][2] # Null
                       /\ \A j \in 1..Len(o[k][2]) : o[k][2][j] \in STRING

\* C13 witness: placeholders extracted from a profile whose first
\* certification has no validFrom and whose second has no name
C13_Witness ==
    \E r \in Requests :
        /\ Fetched(r)
        /\ Len(oEmployeeDetails[r].certifications) = 3
        /\ oEmployeeDetails[r].certifications[1].validFrom = Null
        /\ oEmployeeDetails[r].certifications[2].certification.name = Null
        /\ GetProp(oPlaceholders[r], Token(K_since \o NumStr(0))) = <<>>
        /\ GetProp(oPlaceholders[r], Token(K_competence \o NumStr(0))) = S_BTP
        /\ GetProp(oPlaceholders[r], Token(K_since \o NumStr(1))) = S_Date2
        /\ GetProp(oPlaceholders[r], Token(K_competence \o NumStr(1))) = <<>>

-----------------------------------------------------------------------------
(* The cipher round trip *)

\* The text is hex digits only
IsHex(text) == \A k \in 1..Len(text) : IsHexDigit(text[k])

\* hex(iv):hex(ciphertext) with an IV of one block and a ciphertext of one or
\* more blocks
HasEnvelopeForm(envelope) ==
    LET parts == Split(envelope, ":")
    IN  /\ Len(parts) = 2
        /\ IsHex(parts[1])
        /\ IsHex(parts[2])
        /\ Len(parts[1]) = 2 * BlockSize
        /\ Len(parts[2]) >= 2 * BlockSize
        /\ Len(parts[2]) % (2 * BlockSize) = 0

\* The IV an envelope carries
IvOf(envelope) == HexDecode(Split(envelope, ":")[1])

\* No surrogate code unit of the string is without its partner
WellFormed(units) ==
    \A k \in 1..Len(units) :
        /\ IsHighSurrogate(units[k]) => (k < Len(units) /\ IsLowSurrogate(units[k + 1]))
        /\ IsLowSurrogate(units[k]) => (k > 1 /\ IsHighSurrogate(units[k - 1]))

\* The string with every surrogate that has no partner replaced by U+FFFD
ReplaceLoneSurrogates(units) ==
    [k \in 1..Len(units) |->
        IF \/ (IsHighSurrogate(units[k])
                  /\ ~(k < Len(units) /\ IsLowSurrogate(units[k + 1])))
           \/ (IsLowSurrogate(units[k])
                  /\ ~(k > 1 /\ IsHighSurrogate(units[k - 1])))
        THEN ReplacementChar[1] ELSE units[k]]

\* C14 as stated: every envelope has the form hex(iv):hex(ciphertext) and
\* decrypts, with the seed it was made with, to the plaintext, for every
\* plaintext and seed; two envelopes of the same plaintext and seed differ.
C14_RoundTripAndDistinctEnvelopes ==
    /\ \A i \in 1..Len(oCipher.envelopes) : HasEnvelopeForm(oCipher.envelopes[i])
    /\ \A k \in 1..Len(oCipher.decrypted) :
           oCipher.decrypted[k] = Returned(oCipher.data)
    /\ \A i, j \in 1..Len(oCipher.envelopes) :
           i # j => oCipher.envelopes[i] # oCipher.envelopes[j]

\* C14 as amended: every envelope has the form hex(iv):hex(ciphertext) with
\* the IV its call drew; with the seed it was made with it decrypts to the
\* plaintext when the plaintext is a well-formed string, and in general to the
\* plaintext with every surrogate that has no partner replaced by U+FFFD; two
\* envelopes of the same plaintext and seed differ exactly when the IVs of the
\* two calls differ.
C14_RoundTripOfWellFormedText ==
    /\ \A i \in 1..Len(oCipher.envelopes) :
           /\ HasEnvelopeForm(oCipher.envelopes[i])
           /\ IvOf(oCipher.envelopes[i]) \in RandomBytes
    /\ \A k \in 1..Len(oCipher.decrypted) :
           /\ ~oCipher.decrypted[k].threw
           /\ oCipher.decrypted[k].value = ReplaceLoneSurrogates(oCipher.data)
           /\ WellFormed(oCipher.data) => oCipher.decrypted[k].value = oCipher.data
    /\ \A i, j \in 1..Len(oCipher.envelopes) :
           (oCipher.envelopes[i] # oCipher.envelopes[j])
               <=> (IvOf(oCipher.envelopes[i]) # IvOf(oCipher.envelopes[j]))

\* C14 witness: a plaintext that is one surrogate pair (four bytes) was
\* encrypted twice with different IVs and both envelopes
\* were decrypted
C14_Witness ==
    /\ oCipher.data = <<55357, 56832>>
    /\ oCipher.seed = <<115, 51>>
    /\ Len(oCipher.envelopes) = 2
    /\ oCipher.envelopes[1] # oCipher.envelopes[2]
    /\ Len(oCipher.decrypted) = 2
    /\ oCipher.decrypted[1] = Returned(oCipher.data)
    /\ oCipher.decrypted[2] = Returned(oCipher.data)

-----------------------------------------------------------------------------
(* The order of the projects *)

\* The projects stored for the profile request r fetched last
StoredProjects(r) == Employees[LastFetched(r)].projects

\* Project p is the (i+1)-th latest of the list: at most i projects of the list
\* started later and at least i + 1 started no earlier
IsNthLatest(projects, p, i) ==
    /\ Cardinality({k \in 1..Len(projects) :
                       projects[k].project.startDate > p.project.startDate}) <= i
    /\ Cardinality({k \in 1..Len(projects) :
                       projects[k].project.startDate >= p.project.startDate}) >= i + 1

\* C15: the projects the extractor reads are the stored projects ordered by
\* start date, latest first; for every i < 4 below the number of projects the
\* three project placeholders of index i are the role, domain and name of one
\* stored project, which is the (i+1)-th latest; no project placeholder has
\* an index of 4 or more.
C15_FourMostRecentProjects ==
    \A r \in Requests :
        Fetched(r) =>
            LET stored == StoredProjects(r)
                sorted == oEmployeeDetails[r].projects
                o == oPlaceholders[r]
            IN  /\ Len(sorted) = Len(stored)
                /\ {sorted[k] : k \in 1..Len(sorted)} = {stored[k] : k \in 1..Len(stored)}
                /\ \A j, k \in 1..Len(sorted) :
                       j < k => sorted[j].project.startDate >= sorted[k].project.startDate
                /\ \A i \in 0..(ProjectSlots - 1) :
                       i < Len(stored) =>
                           \E k \in 1..Len(stored) :
                               /\ IsNthLatest(stored, stored[k], i)
                               /\ GetProp(o, Token(K_projectRole \o NumStr(i)))
                                      = OrEmpty(stored[k].role_code)
                               /\ GetProp(o, Token(K_projectIndustry \o NumStr(i)))
                                      = OrEmpty(stored[k].project.domain_code)
                               /\ GetProp(o, Token(K_projectName \o NumStr(i)))
                                      = OrEmpty(stored[k].project.name)
                /\ \A i \in ProjectSlots..9, K \in ProjectKeys :
                       ~HasProp(o, Token(K \o NumStr(i)))

\* C15 witness: five projects stored oldest first; the placeholders of index
\* 0 and 3 describe the fifth and the second stored project, the first stored
\* project appears nowhere
C15_Witness ==
    \E r \in Requests :
        /\ Fetched(r)
        /\ Len(StoredProjects(r)) = 5
        /\ \A k \in 1..4 : StoredProjects(r)[k].project.startDate
                               < StoredProjects(r)[k + 1].project.startDate
        /\ GetProp(oPlaceholders[r], Token(K_projectRole \o NumStr(0))) = <<"R", "5">>
        /\ GetProp(oPlaceholders[r], Token(K_projectRole \o NumStr(3))) = <<"R", "2">>
        /\ \A k \in 1..Len(oPlaceholders[r]) : oPlaceholders[r][k][2] # <<"R", "1">>

-----------------------------------------------------------------------------
(* Employees without avatar bytes *)

\* Image bytes are stored for employee id
HasAvatarBytes(id) == id \in DOMAIN Avatars /\ Avatars[id].data # Null

\* Request r failed in the avatar step: the step after the last one it logged
FailedAtAvatar(r) ==
    /\ Failed(r)
    /\ ~bIsExternal(r)
    /\ Len(trace[r]) > 0
    /\ trace[r][Len(trace[r])][1] = "readFile"

\* C16: in internal mode a request never fails in the avatar step of an
\* employee for whom no image bytes are stored (a row without data, or no
\* row); the render of such an employee goes on with the avatar part of the
\* template; the avatar part of a container differs from the template's only
\* when bytes are stored for its employee, and then it is those bytes.
C16_MissingAvatarKeepsTemplateImage ==
    \A r \in Requests :
        ~bIsExternal(r) =>
            /\ FailedAtAvatar(r) => HasAvatarBytes(trace[r][Len(trace[r])][3])
            /\ pc[r] \in {"slides", "generate"} =>
                   ZipRead(oZip[r], AvatarPart)
                       = IF HasAvatarBytes(EmployeeID(r))
                         THEN Avatars[EmployeeID(r)].data
                         ELSE ZipRead(templateFile, AvatarPart)
            /\ \A k \in 1..Len(aPPTBuffers[r]) :
                   ZipRead(aPPTBuffers[r][k].parts, AvatarPart)
                       = IF HasAvatarBytes(IDs(r)[k])
                         THEN Avatars[IDs(r)[k]].data
                         ELSE ZipRead(templateFile, AvatarPart)

====
